---- MODULE Spec2Model ----
(***************************************************************************)
(* A model of mcpYoutube.py: five FastMCP tools, each of which opens an    *)
(* httpx.AsyncClient, issues one GET against the YouTube Data API and      *)
(* returns either the decoded JSON body or an {"error": ...} dictionary.   *)
(*                                                                         *)
(* The state is one record per tool invocation (the coroutine's locals and *)
(* its position) and one record per HTTP client.  The upstream API is the  *)
(* environment: it answers a pending request with a response or the        *)
(* transport fails with an exception.                                      *)
(***************************************************************************)
EXTENDS Integers, Sequences, FiniteSets, TLC

VARIABLES inv, clients

vars == <<inv, clients>>

(***************************************************************************)
(* Bounds of the model.                                                    *)
(***************************************************************************)
\* Number of invocation slots the host can have in use at the same time.
NumInvocations == 2

Invocations == 1..NumInvocations

\* At most one client exists per live invocation, so as many ids suffice.
ClientIds == Invocations

(***************************************************************************)
(* Module-level constants of the program.                                  *)
(***************************************************************************)
YOUTUBE_API_BASE == "https://www.googleapis.com/youtube/v3"

USER_AGENT == "youtube-mcp/1.0"

YOUTUBE_API_KEY == "Your-api-key"

\* Python's None, as the default of the Optional[str] parameter category_id.
\* No enumerated caller string equals it.
None == "<None>"

Tools ==
  {"search_videos", "get_video_details", "get_channel_info",
   "get_video_comments", "get_trending_videos"}

(***************************************************************************)
(* Argument binding: the parameters a signature declares with a default    *)
(* take it when the caller does not give them.                             *)
(***************************************************************************)
Defaults(tool) ==
  CASE tool = "search_videos" -> [max_results |-> 10, order |-> "relevance"]
    [] tool = "get_video_details" -> <<>>
    [] tool = "get_channel_info" -> <<>>
    [] tool = "get_video_comments" -> [max_results |-> 20, order |-> "relevance"]
    [] tool = "get_trending_videos" ->
         [region_code |-> "US", category_id |-> None, max_results |-> 10]

\* given @@ d: the caller's value wins, the default fills what is missing.
Bind(tool, given) == given @@ Defaults(tool)

(***************************************************************************)
(* Python builtins the tools use.                                          *)
(***************************************************************************)
\* min(a, b) on integers.
Min(a, b) == IF a < b THEN a ELSE b

\* Truth value of an Optional[str], as tested by `if category_id:`.
Truthy(s) == s # None /\ s # ""

(***************************************************************************)
(* The query parameters each tool builds.                                  *)
(***************************************************************************)
\* SearchParams without the cap: max_results is sent as given.
SearchParamsUncapped(a) ==
  [part |-> "snippet",
   q |-> a.query,
   maxResults |-> a.max_results,
   order |-> a.order,
   type |-> "video",
   key |-> YOUTUBE_API_KEY]

SearchParams(a) ==
  [part |-> "snippet",
   q |-> a.query,
   maxResults |-> Min(a.max_results, 50),
   order |-> a.order,
   type |-> "video",
   key |-> YOUTUBE_API_KEY]

VideoDetailsParams(a) ==
  [part |-> "snippet,contentDetails,statistics",
   id |-> a.video_id,
   key |-> YOUTUBE_API_KEY]

ChannelParams(a) ==
  [part |-> "snippet,statistics,contentDetails",
   id |-> a.channel_id,
   key |-> YOUTUBE_API_KEY]

\* CommentsParams with the order parameter left at "relevance".
CommentsParamsFixedOrder(a) ==
  [part |-> "snippet",
   videoId |-> a.video_id,
   maxResults |-> Min(a.max_results, 100),
   order |-> "relevance",
   key |-> YOUTUBE_API_KEY]

CommentsParams(a) ==
  [part |-> "snippet",
   videoId |-> a.video_id,
   maxResults |-> Min(a.max_results, 100),
   order |-> a.order,
   key |-> YOUTUBE_API_KEY]

\* TrendingParams testing `category_id is not None` in place of the truth
\* value of category_id.
TrendingParamsNotNone(a) ==
  LET params == [part |-> "snippet,contentDetails,statistics",
                 chart |-> "mostPopular",
                 regionCode |-> a.region_code,
                 maxResults |-> Min(a.max_results, 50),
                 key |-> YOUTUBE_API_KEY]
  IN  IF a.category_id # None
        THEN ("videoCategoryId" :> a.category_id) @@ params
        ELSE params

TrendingParams(a) ==
  LET params == [part |-> "snippet,contentDetails,statistics",
                 chart |-> "mostPopular",
                 regionCode |-> a.region_code,
                 maxResults |-> Min(a.max_results, 50),
                 key |-> YOUTUBE_API_KEY]
  IN  IF Truthy(a.category_id)
        THEN ("videoCategoryId" :> a.category_id) @@ params
        ELSE params

\* The endpoint path each tool appends to YOUTUBE_API_BASE.
Endpoint(tool) ==
  CASE tool = "search_videos" -> "/search"
    [] tool = "get_video_details" -> "/videos"
    [] tool = "get_channel_info" -> "/channels"
    [] tool = "get_video_comments" -> "/commentThreads"
    [] tool = "get_trending_videos" -> "/videos"

Params(tool, a) ==
  CASE tool = "search_videos" -> SearchParams(a)
    [] tool = "get_video_details" -> VideoDetailsParams(a)
    [] tool = "get_channel_info" -> ChannelParams(a)
    [] tool = "get_video_comments" -> CommentsParams(a)
    [] tool = "get_trending_videos" -> TrendingParams(a)

\* The arguments of the one client.get(...) call of a tool.
Request(tool, a) ==
  [method |-> "GET",
   url |-> YOUTUBE_API_BASE \o Endpoint(tool),
   params |-> Params(tool, a),
   headers |-> [UserAgent |-> USER_AGENT],
   timeout |-> 30]

(***************************************************************************)
(* What the upstream call can produce.  client.get(...) either raises a    *)
(* transport exception or yields a response (status code and body text).   *)
(***************************************************************************)
\* The httpx exception classes met here that derive from httpx.HTTPError:
\* the status error of raise_for_status and the transport errors.
\* json.JSONDecodeError, raised by Response.json(), is not among them.
HTTPError ==
  {"HTTPStatusError", "ConnectError", "ConnectTimeout", "ReadTimeout"}

\* IsHTTPError for a clause that catches httpx.HTTPStatusError only.
IsHTTPStatusErrorOnly(cls) == cls = "HTTPStatusError"

IsHTTPError(cls) == cls \in HTTPError

\* Response.is_success: the status code is 2xx.
IsSuccess(status) == 200 <= status /\ status <= 299

\* Body texts the upstream sends.
SearchListText == "{\"kind\":\"youtube#searchListResponse\",\"items\":[]}"

PageText == "{\"items\":[{\"id\":\"v1\"}],\"nextPageToken\":\"t\"}"

QuotaErrorText == "{\"error\":{\"code\":403,\"message\":\"quotaExceeded\"}}"

HtmlText == "<html>Service Unavailable</html>"

\* Response.json(): decoding of the body text.  ok is FALSE where the text
\* is not a JSON document (json.JSONDecodeError is raised).
Json(text) ==
  CASE text = SearchListText ->
         [ok |-> TRUE,
          value |-> [kind |-> "youtube#searchListResponse", items |-> <<>>]]
    [] text = PageText ->
         [ok |-> TRUE,
          value |-> [items |-> <<[id |-> "v1"]>>, nextPageToken |-> "t"]]
    [] text = QuotaErrorText ->
         [ok |-> TRUE,
          value |-> [error |-> [code |-> 403, message |-> "quotaExceeded"]]]
    [] OTHER -> [ok |-> FALSE]

\* str(e): the message the exception was raised with.
ErrorText(exc) == exc.message

\* Response.raise_for_status(): the HTTPStatusError of a non-2xx response,
\* whose message names the class of the status code and the status line.
StatusError(response) ==
  LET class == CASE response.status \div 100 = 1 -> "Informational response"
                 [] response.status \div 100 = 3 -> "Redirect response"
                 [] response.status \div 100 = 4 -> "Client error"
                 [] response.status \div 100 = 5 -> "Server error"
                 [] OTHER -> "Invalid status code"
  IN  [cls |-> "HTTPStatusError",
       message |-> class \o " '" \o response.reason \o "'"]

\* The `except httpx.HTTPError as e` clause: an HTTPError becomes the error
\* dictionary, any other exception propagates to the caller.
Except(exc) ==
  IF IsHTTPError(exc.cls)
    THEN [kind |-> "return",
          value |-> [error |-> "HTTP error occurred: " \o ErrorText(exc)]]
    ELSE [kind |-> "raise", exc |-> exc]

\* OnResponse wrapping the decoded body in a dictionary of its own.
OnResponseWrapped(response) ==
  IF ~IsSuccess(response.status)
    THEN Except(StatusError(response))
    ELSE IF Json(response.text).ok
           THEN [kind |-> "return",
                 value |-> [result |-> Json(response.text).value]]
           ELSE Except([cls |-> "JSONDecodeError",
                        message |-> "Expecting value: line 1 column 1 (char 0)"])

\* The statements after a response has arrived: raise_for_status(), then
\* return response.json().
OnResponse(response) ==
  IF ~IsSuccess(response.status)
    THEN Except(StatusError(response))
    ELSE IF Json(response.text).ok
           THEN [kind |-> "return", value |-> Json(response.text).value]
           ELSE Except([cls |-> "JSONDecodeError",
                        message |-> "Expecting value: line 1 column 1 (char 0)"])

\* How the body of the try statement ends, given what client.get produced.
TryBlock(outcome) ==
  IF outcome.kind = "exception"
    THEN Except(outcome.exc)
    ELSE OnResponse(outcome.response)

(***************************************************************************)
(* The clients.  `async with httpx.AsyncClient() as client` creates a new   *)
(* client on entry and closes it on exit, however the block is left.       *)
(***************************************************************************)
NoClient == [state |-> "none", owner |-> 0, usedBy |-> {}]

\* httpx.AsyncClient(): the client the block of invocation i runs with.
NewClient(i, cs) == CHOOSE c \in ClientIds : cs[c].state = "none"

\* AExit for a client closed by hand after the try statement, which a
\* propagating exception skips.
AExitOnReturnOnly(client, pending) ==
  IF pending.kind = "return" THEN [client EXCEPT !.state = "closed"] ELSE client

\* __aexit__: the state of the client once the block has been left with
\* `pending` (a return or a propagating exception).
AExit(client, pending) == [client EXCEPT !.state = "closed"]

(***************************************************************************)
(* Invocations.  pc is the coroutine's position:                           *)
(*   idle -> called -> entered -> awaiting -> exiting -> done -> idle      *)
(***************************************************************************)
Idle ==
  [pc |-> "idle", tool |-> "", given |-> <<>>, args |-> <<>>, client |-> 0,
   sent |-> <<>>, outcome |-> [kind |-> "none"], result |-> [kind |-> "none"]]

\* Resume with `response` kept in a module-level variable: every coroutine
\* suspended in client.get sees the outcome that arrived last.
ResumeShared(invs, i, outcome) ==
  [j \in DOMAIN invs |->
     IF invs[j].pc = "awaiting"
       THEN [invs[j] EXCEPT !.pc = "exiting",
                            !.outcome = outcome,
                            !.result = TryBlock(outcome)]
       ELSE invs[j]]

\* The coroutine resumes from `await client.get(...)` with `outcome` and
\* runs to the end of the try statement; only its own locals change.
Resume(invs, i, outcome) ==
  [invs EXCEPT ![i].pc = "exiting",
               ![i].outcome = outcome,
               ![i].result = TryBlock(outcome)]

Init ==
  /\ inv = [i \in Invocations |-> Idle]
  /\ clients = [c \in ClientIds |-> NoClient]

\* The host calls `tool` with the arguments `given`.
Call(i, tool, given) ==
  /\ inv[i].pc = "idle"
  /\ inv' = [inv EXCEPT ![i].pc = "called",
                        ![i].tool = tool,
                        ![i].given = given,
                        ![i].args = Bind(tool, given)]
  /\ UNCHANGED clients

\* async with httpx.AsyncClient() as client: (entry)
EnterClient(i) ==
  /\ inv[i].pc = "called"
  /\ \E c \in ClientIds : clients[c].state = "none"
  /\ LET c == NewClient(i, clients)
     IN  /\ clients' = [clients EXCEPT ![c] =
                          [state |-> "open", owner |-> i, usedBy |-> {}]]
         /\ inv' = [inv EXCEPT ![i].pc = "entered", ![i].client = c]

\* response = await client.get(...): the request goes out and the coroutine
\* is suspended.
Get(i) ==
  /\ inv[i].pc = "entered"
  /\ clients[inv[i].client].state = "open"
  /\ inv' = [inv EXCEPT ![i].pc = "awaiting",
                        ![i].sent = Append(@, Request(inv[i].tool, inv[i].args))]
  /\ clients' = [clients EXCEPT ![inv[i].client].usedBy = @ \cup {i}]

\* The upstream API answers the pending request of invocation i.
Respond(i, response) ==
  /\ inv[i].pc = "awaiting"
  /\ inv' = Resume(inv, i, [kind |-> "response", response |-> response])
  /\ UNCHANGED clients

\* The pending request of invocation i fails in transport (no connection,
\* or one of the 30 s timeouts expires).
Fail(i, exc) ==
  /\ inv[i].pc = "awaiting"
  /\ inv' = Resume(inv, i, [kind |-> "exception", exc |-> exc])
  /\ UNCHANGED clients

\* async with ...: (exit) the client is closed and the invocation ends with
\* the value returned or the exception raised.
ExitClient(i) ==
  /\ inv[i].pc = "exiting"
  /\ clients' = [clients EXCEPT ![inv[i].client] = AExit(@, inv[i].result)]
  /\ inv' = [inv EXCEPT ![i].pc = "done"]

\* The host has taken the result; the slot is free for another call and a
\* closed client is garbage.
Forget(i) ==
  /\ inv[i].pc = "done"
  /\ inv' = [inv EXCEPT ![i] = Idle]
  /\ clients' = [clients EXCEPT ![inv[i].client] =
                   IF @.state = "closed" /\ @.owner = i THEN NoClient ELSE @]

(***************************************************************************)
(* The calls the host makes and the answers the environment gives.         *)
(***************************************************************************)
\* The records with either no field k or field k set to a value of S.
Opt(k, S) == {<<>>} \cup {k :> v : v \in S}

MaxResultsInputs == {-1, 0, 50, 51, 100, 200}

\* <<tool, given arguments>>: every tool, with each defaulted parameter
\* given or left out.
Inputs ==
  {<<"search_videos", ("query" :> q) @@ m @@ o>> :
     q \in {"cats", "dogs"},
     m \in Opt("max_results", MaxResultsInputs),
     o \in Opt("order", {"date", "bogus"})}
  \cup {<<"get_video_details", [video_id |-> v]>> : v \in {"v1", ""}}
  \cup {<<"get_channel_info", [channel_id |-> c]>> : c \in {"UC1", ""}}
  \cup {<<"get_video_comments", ("video_id" :> v) @@ m @@ o>> :
          v \in {"v1", "v2"},
          m \in Opt("max_results", MaxResultsInputs),
          o \in Opt("order", {"time", "bogus"})}
  \cup {<<"get_trending_videos", r @@ c @@ m>> :
          r \in Opt("region_code", {"GB"}),
          c \in Opt("category_id", {None, "", "10"}),
          m \in Opt("max_results", MaxResultsInputs)}

Responses ==
  {[status |-> 200, reason |-> "200 OK",
    text |-> SearchListText],
   [status |-> 200, reason |-> "200 OK",
    text |-> PageText],
   [status |-> 200, reason |-> "200 OK", text |-> HtmlText],
   [status |-> 301, reason |-> "301 Moved Permanently", text |-> ""],
   [status |-> 403, reason |-> "403 Forbidden",
    text |-> QuotaErrorText],
   [status |-> 500, reason |-> "500 Internal Server Error", text |-> HtmlText]}

\* Transport failures of client.get: DNS failure, connect and read timeout.
Failures ==
  {[cls |-> "ConnectError", message |-> "[Errno -2] Name or service not known"],
   [cls |-> "ConnectTimeout", message |-> ""],
   [cls |-> "ReadTimeout", message |-> ""]}

\* The calls and answers of the concurrent specification.
ConcInputs ==
  {<<"search_videos", [query |-> "cats", max_results |-> 200]>>,
   <<"get_video_details", [video_id |-> "v1"]>>,
   <<"get_trending_videos", [category_id |-> "10"]>>}

ConcResponses ==
  {r \in Responses :
     \/ r.status = 200 /\ r.text \in {SearchListText, HtmlText}
     \/ r.status = 403}

ConcFailures == {f \in Failures : f.cls = "ReadTimeout"}

(***************************************************************************)
(* Spec: the host makes one call at a time, with every input.              *)
(***************************************************************************)
SeqCall(i, tool, given) ==
  /\ \A j \in Invocations : inv[j].pc = "idle"
  /\ Call(i, tool, given)

Next ==
  \E i \in Invocations :
    \/ \E in \in Inputs : SeqCall(i, in[1], in[2])
    \/ EnterClient(i)
    \/ Get(i)
    \/ \E r \in Responses : Respond(i, r)
    \/ \E f \in Failures : Fail(i, f)
    \/ ExitClient(i)
    \/ Forget(i)

Spec == Init /\ [][Next]_vars

(***************************************************************************)
(* ConcSpec: the host has up to NumInvocations calls running concurrently, *)
(* their steps interleaved in every order.                                 *)
(***************************************************************************)
ConcNext ==
  \E i \in Invocations :
    \/ \E in \in ConcInputs : Call(i, in[1], in[2])
    \/ EnterClient(i)
    \/ Get(i)
    \/ \E r \in ConcResponses : Respond(i, r)
    \/ \E f \in ConcFailures : Fail(i, f)
    \/ ExitClient(i)
    \/ Forget(i)

ConcSpec == Init /\ [][ConcNext]_vars

(***************************************************************************)
(* Vocabulary of the properties.                                           *)
(***************************************************************************)
\* The range of max_results each docstring documents.
DocumentedRange(tool) ==
  CASE tool = "search_videos" -> [lo |-> 1, hi |-> 50]
    [] tool = "get_video_comments" -> [lo |-> 1, hi |-> 100]
    [] tool = "get_trending_videos" -> [lo |-> 1, hi |-> 50]

CappedTools == {"search_videos", "get_video_comments", "get_trending_videos"}

\* Invocation i has issued its request; Req(i) is that request.
Sent(i) == Len(inv[i].sent) >= 1

Req(i) == inv[i].sent[1]

\* Invocation i has left the try statement (its result is determined).
Finished(i) == inv[i].pc \in {"exiting", "done"}

\* The value the caller gave for parameter k, or the signature's default d.
Arg(i, k, d) == IF k \in DOMAIN inv[i].given THEN inv[i].given[k] ELSE d

\* The upstream call failed: a transport exception or a non-2xx status.
UpstreamFailed(o) ==
  \/ o.kind = "exception"
  \/ o.kind = "response" /\ o.response.status \notin 200..299

\* The upstream answered 2xx with a body that is a JSON document.
UpstreamJson(o) ==
  /\ o.kind = "response"
  /\ o.response.status \in 200..299
  /\ Json(o.response.text).ok

ErrorPrefix == "HTTP error occurred: "

\* v is an error envelope: its only key is "error", holding a description
\* that begins with ErrorPrefix.
IsErrorEnvelope(v) ==
  /\ DOMAIN v = {"error"}
  /\ Len(v.error) >= Len(ErrorPrefix)
  /\ SubSeq(v.error, 1, Len(ErrorPrefix)) = ErrorPrefix

(***************************************************************************)
(* Properties.                                                             *)
(***************************************************************************)
\* C1: for search_videos, get_video_comments and get_trending_videos, a
\* max_results above the tool's documented cap (50, 100, 50) is sent as the
\* cap: the outgoing maxResults equals the cap and is not the raw input.
C1_CapApplied ==
  \A i \in Invocations :
    (/\ Sent(i)
     /\ inv[i].tool \in CappedTools
     /\ "max_results" \in DOMAIN inv[i].given
     /\ inv[i].given.max_results > DocumentedRange(inv[i].tool).hi)
    => /\ Req(i).params.maxResults = DocumentedRange(inv[i].tool).hi
       /\ Req(i).params.maxResults # inv[i].given.max_results

\* search_videos(query="cats", max_results=200) has sent maxResults=50.
C1_Witness ==
  \E i \in Invocations :
    /\ Sent(i)
    /\ inv[i].tool = "search_videos"
    /\ inv[i].given = [query |-> "cats", max_results |-> 200]
    /\ Req(i).params.maxResults = 50

\* C2: for each of the five tools, when the upstream call fails (transport
\* exception, timeout or non-2xx status) the invocation returns a dictionary
\* whose only key is "error", holding a string that begins with
\* "HTTP error occurred: "; the failure is not raised to the caller.
C2_FailureGivesErrorEnvelope ==
  \A i \in Invocations :
    (Finished(i) /\ UpstreamFailed(inv[i].outcome))
    => /\ inv[i].result.kind = "return"
       /\ IsErrorEnvelope(inv[i].result.value)

\* A call has ended after a read timeout with the error envelope.
C2_Witness ==
  \E i \in Invocations :
    /\ inv[i].pc = "done"
    /\ inv[i].outcome.kind = "exception"
    /\ inv[i].outcome.exc.cls = "ReadTimeout"
    /\ inv[i].result = [kind |-> "return",
                        value |-> [error |-> "HTTP error occurred: "]]

\* C3: for each of the five tools, when the upstream answers 2xx the value
\* returned is the upstream JSON body itself: the same keys with the same
\* values, and not an error envelope.
C3_SuccessPassThrough ==
  \A i \in Invocations :
    (Finished(i) /\ UpstreamJson(inv[i].outcome))
    => /\ inv[i].result.kind = "return"
       /\ inv[i].result.value = Json(inv[i].outcome.response.text).value
       /\ DOMAIN inv[i].result.value # {"error"}

\* get_video_details has ended with the two-key body the upstream sent.
C3_Witness ==
  \E i \in Invocations :
    /\ inv[i].pc = "done"
    /\ inv[i].tool = "get_video_details"
    /\ inv[i].outcome.kind = "response"
    /\ inv[i].outcome.response.status = 200
    /\ inv[i].result.kind = "return"
    /\ DOMAIN inv[i].result.value = {"items", "nextPageToken"}
    /\ inv[i].result.value.nextPageToken = "t"

\* C4: every integer max_results, 0 and negative values included, is sent
\* as a maxResults within the tool's documented range (1-50 for
\* search_videos and get_trending_videos, 1-100 for get_video_comments).
C4_ClampedIntoRange ==
  \A i \in Invocations :
    (Sent(i) /\ inv[i].tool \in CappedTools)
    => /\ Req(i).params.maxResults >= DocumentedRange(inv[i].tool).lo
       /\ Req(i).params.maxResults <= DocumentedRange(inv[i].tool).hi

\* C5 as stated: in get_trending_videos the request carries videoCategoryId
\* (equal to category_id) if and only if the caller supplied a category_id,
\* whatever string it is.
C5_IncludedIffSupplied ==
  \A i \in Invocations :
    (Sent(i) /\ inv[i].tool = "get_trending_videos")
    => /\ "videoCategoryId" \in DOMAIN Req(i).params
            <=> Arg(i, "category_id", None) # None
       /\ "videoCategoryId" \in DOMAIN Req(i).params
            => Req(i).params.videoCategoryId = inv[i].given.category_id

\* C5, amended: in get_trending_videos the request carries videoCategoryId
\* (equal to category_id) if and only if the caller supplied a non-empty
\* category_id; an empty string is left out like an absent one.
C5_IncludedIffNonEmpty ==
  \A i \in Invocations :
    (Sent(i) /\ inv[i].tool = "get_trending_videos")
    => /\ "videoCategoryId" \in DOMAIN Req(i).params
            <=> Arg(i, "category_id", None) \notin {None, ""}
       /\ "videoCategoryId" \in DOMAIN Req(i).params
            => Req(i).params.videoCategoryId = inv[i].given.category_id

\* get_trending_videos(category_id="") has sent a request without
\* videoCategoryId.
C5_Witness ==
  \E i \in Invocations :
    /\ Sent(i)
    /\ inv[i].tool = "get_trending_videos"
    /\ "category_id" \in DOMAIN inv[i].given
    /\ inv[i].given.category_id = ""
    /\ "videoCategoryId" \notin DOMAIN Req(i).params

\* The result is the whole decoded body of a 2xx answer.
IsFullBody(i) ==
  /\ UpstreamJson(inv[i].outcome)
  /\ inv[i].result.kind = "return"
  /\ inv[i].result.value = Json(inv[i].outcome.response.text).value

\* The result is the error envelope of a failed upstream call.
IsFailureEnvelope(i) ==
  /\ UpstreamFailed(inv[i].outcome)
  /\ inv[i].result.kind = "return"
  /\ IsErrorEnvelope(inv[i].result.value)

\* No invocation has issued more than one request, and none issues a
\* request once an outcome of its request has arrived.
AtMostOneRequest ==
  \A i \in Invocations :
    /\ Len(inv[i].sent) <= 1
    /\ inv[i].outcome.kind # "none" => Len(inv[i].sent) = 1

\* C6: every invocation issues at most one GET request over its lifetime
\* (no second request after a failed one) and ends with either the full
\* JSON body or the error envelope.
C6_OneRequestThenBodyOrEnvelope ==
  /\ AtMostOneRequest
  /\ \A i \in Invocations :
       inv[i].pc = "done" => IsFullBody(i) \/ IsFailureEnvelope(i)

\* C7: every invocation that has issued its request ends with a returned
\* value, the JSON body or the error envelope (stated on the final state:
\* an invocation that has ended has returned a value).
C7_EndsWithReturnedValue ==
  \A i \in Invocations :
    inv[i].pc = "done"
    => /\ inv[i].result.kind = "return"
       /\ IsFullBody(i) \/ IsFailureEnvelope(i)

\* C8: concurrent invocations are independent.  The request of each is a
\* function of its own arguments and its result a function of the outcome
\* of its own request; a step changes the locals of one invocation only,
\* and a client is changed only by a step of the invocation that owns it.
C8_Independent ==
  /\ [](\A i \in Invocations :
          /\ Sent(i) =>
               Req(i) = Request(inv[i].tool, Bind(inv[i].tool, inv[i].given))
          /\ Finished(i) => inv[i].result = TryBlock(inv[i].outcome))
  /\ [][/\ \A i, j \in Invocations :
             (i # j /\ inv'[i] # inv[i]) => inv'[j] = inv[j]
        /\ \A c \in ClientIds :
             clients'[c] # clients[c] =>
               \E i \in Invocations :
                 /\ inv'[i] # inv[i]
                 /\ i \in {clients[c].owner, clients'[c].owner}]_vars

\* Two invocations of different tools are both over, one with the error
\* envelope of its failed request and one with the body of its own answer.
C8_Witness ==
  \E i, j \in Invocations :
    /\ i # j
    /\ inv[i].tool # inv[j].tool
    /\ inv[i].pc = "done" /\ IsFailureEnvelope(i)
    /\ inv[j].pc = "done" /\ IsFullBody(j)

\* C9: apart from maxResults the caller's arguments go out verbatim:
\* search_videos sends q, order and type=video to /search,
\* get_video_details id to /videos, get_channel_info id to /channels,
\* get_video_comments videoId and order to /commentThreads,
\* get_trending_videos regionCode ("US" when not given) and
\* chart=mostPopular to /videos; each request carries key, and a
\* max_results at or below the cap is sent unchanged.
C9_ArgumentsPassedThrough ==
  \A i \in Invocations :
    Sent(i) =>
      LET t == inv[i].tool
          g == inv[i].given
          r == Req(i)
      IN  /\ r.method = "GET"
          /\ r.params.key = "Your-api-key"
          /\ t = "search_videos" =>
               /\ r.url = "https://www.googleapis.com/youtube/v3/search"
               /\ r.params.q = g.query
               /\ r.params.order = Arg(i, "order", "relevance")
               /\ r.params.type = "video"
          /\ t = "get_video_details" =>
               /\ r.url = "https://www.googleapis.com/youtube/v3/videos"
               /\ r.params.id = g.video_id
          /\ t = "get_channel_info" =>
               /\ r.url = "https://www.googleapis.com/youtube/v3/channels"
               /\ r.params.id = g.channel_id
          /\ t = "get_video_comments" =>
               /\ r.url = "https://www.googleapis.com/youtube/v3/commentThreads"
               /\ r.params.videoId = g.video_id
               /\ r.params.order = Arg(i, "order", "relevance")
          /\ t = "get_trending_videos" =>
               /\ r.url = "https://www.googleapis.com/youtube/v3/videos"
               /\ r.params.regionCode = Arg(i, "region_code", "US")
               /\ r.params.chart = "mostPopular"
          /\ (t \in CappedTools /\ "max_results" \in DOMAIN g
                /\ g.max_results <= DocumentedRange(t).hi) =>
               r.params.maxResults = g.max_results

\* get_video_comments(video_id="v2", max_results=100, order="bogus") has
\* sent exactly those values.
C9_Witness ==
  \E i \in Invocations :
    /\ Sent(i)
    /\ inv[i].tool = "get_video_comments"
    /\ inv[i].given = [video_id |-> "v2", max_results |-> 100, order |-> "bogus"]
    /\ Req(i).params.videoId = "v2"
    /\ Req(i).params.order = "bogus"
    /\ Req(i).params.maxResults = 100

\* An invocation is inside its `async with` block.
InBlock(i) == inv[i].pc \in {"entered", "awaiting", "exiting"}

\* C10: each invocation opens a client of its own, which is closed when the
\* invocation has ended, whether it returned the body, returned the error
\* envelope or let an exception escape; no client of an ended invocation is
\* open, and no client is used by an invocation that did not open it.
C10_ClientOwnedAndClosed ==
  /\ \A i \in Invocations :
       /\ InBlock(i) =>
            /\ inv[i].client \in ClientIds
            /\ clients[inv[i].client].owner = i
            /\ clients[inv[i].client].state = "open"
       /\ inv[i].pc = "done" =>
            /\ clients[inv[i].client].owner = i
            /\ clients[inv[i].client].state = "closed"
  /\ \A i, j \in Invocations :
       (i # j /\ (InBlock(i) \/ inv[i].pc = "done")
              /\ (InBlock(j) \/ inv[j].pc = "done"))
       => inv[i].client # inv[j].client
  /\ \A c \in ClientIds :
       /\ clients[c].usedBy \subseteq {clients[c].owner}
       /\ clients[c].state = "open" =>
            \E i \in Invocations : InBlock(i) /\ inv[i].client = c

\* One invocation has ended by an escaping exception with its client
\* closed, while another is suspended in its request on its own open client.
C10_Witness ==
  \E i, j \in Invocations :
    /\ inv[i].pc = "done"
    /\ inv[i].result.kind = "raise"
    /\ clients[inv[i].client].state = "closed"
    /\ inv[j].pc = "awaiting"
    /\ clients[inv[j].client].state = "open"
    /\ clients[inv[j].client].usedBy = {j}

====
